---- MODULE Spec2Model ----
(***************************************************************************)
(* Model of the analog-hub / ams-compose installation core:                *)
(*   RepositoryMirror  (core/mirror.py)                                    *)
(*   PathExtractor     (core/extractor.py)                                 *)
(*   LibraryInstaller  (core/installer.py)                                 *)
(* The program is strictly sequential, so every public operation is one    *)
(* atomic action; the order of its internal steps is kept in last.events.  *)
(***************************************************************************)
EXTENDS Integers, Sequences, FiniteSets, TLC

\* ---------------------------------------------------------------- bounds
MaxClock == 2     \* operations that install something in one behaviour
                  \* (the clock is read once per operation)
MaxEnv   == 1     \* things that happen from outside in one behaviour: an
                  \* upstream commit, a manual change of installed files, a
                  \* rewrite of the manifest, an operation disturbed by an
                  \* outage or a disk error

\* ---------------------------------------------------------------- values
Names == {"a", "b"}
Repos == {"r1", "r2", "r3"}

\* r3's URL is one git takes but the URL rules of the specification refuse
\* (a scheme outside http, https, ssh, git, or a shell metacharacter)
BadUrls == {"r3"}

\* a directory next to the project root, which local_path "../out" names
Outside == "../out"
Paths == {"a", "b", Outside}

\* what the user keeps at Outside
UserData == [kind |-> "dir", files |-> [p \in {"x"} |-> 0], content |-> 0]

Main   == [t |-> "branch", c |-> 0]     \* the branch "main"
Sha(c) == [t |-> "sha", c |-> c]        \* the full SHA of commit c
BadRef == [t |-> "none", c |-> 0]       \* a ref no repository has

\* the order sorted() gives the relative paths of an installed directory
FileOrder == <<".analog-hub-meta.yaml", ".git", "f", "f1", "f1x", "f2",
               "file", "x">>

\* working tree of source_path "dir" at commit c: f2 is added by commit 2
Tree(c) == IF c >= 2 THEN [p \in {"f1", "f2"} |-> c] ELSE [p \in {"f1"} |-> c]

\* what is at the root of the working tree (source_path ".") at commit c,
\* next to the directory "dir": the repository's .git and the file "file"
RootTree(c) == [p \in {".git", "file"} |-> c]

\* the metadata file extract_library writes into an installed directory
MetaName == ".analog-hub-meta.yaml"

NoDest == [kind |-> "absent", files |-> <<>>, content |-> 0]

NoMirror == [exists |-> FALSE, meta |-> FALSE, head |-> 0, localMain |-> 0,
             known |-> 0, current_ref |-> BadRef, resolved_commit |-> 0,
             created_at |-> 0]

\* manifest entries the model draws from
\* (local_path "" is None: the library goes to library_root/name)
ImportSpec(repo, ref, source_path, local_path) ==
  [repo |-> repo, ref |-> ref, source_path |-> source_path,
   local_path |-> local_path]

SpecsA == { ImportSpec("r1", Main,   "dir",  ""),
            ImportSpec("r1", Sha(1), "dir",  ""),
            ImportSpec("r1", Main,   "file", "") }
SpecsB == { ImportSpec("r2", Main,   "dir",     ""),
            ImportSpec("r1", BadRef, "dir",     ""),
            ImportSpec("r2", Main,   "missing", ""),
            ImportSpec("r2", Main,   "dir",     Outside),
            ImportSpec("r3", Main,   ".",       ""),
            ImportSpec("r1", Sha(1), "dir",     "") }
SpecsOf(n) == IF n = "a" THEN SpecsA ELSE SpecsB

VARIABLES
  config,    \* analog-hub.yaml: [order: Seq(Names), spec: name -> ImportSpec]
  lock,      \* .analog-hub.lock: [order: Seq(Names), ent: name -> LockEntry]
  upstream,  \* upstream[r]: commit the origin's branch main points to
  mirror,    \* mirror[r]: the clone under <mirror_root>/<repo_hash>
  dest,      \* dest[p]: what is on disk at path p (library_root/name for
             \* a library name, or Outside)
  sidecar,   \* names whose single-file metadata sits next to the file
  now,       \* the clock datetime.now() reads (one reading per operation)
  env,       \* things done from outside so far
  last       \* outcome of the last operation

vars == <<config, lock, upstream, mirror, dest, sidecar, now, env, last>>

SeqToSet(s) == { s[i] : i \in 1..Len(s) }

\* ------------------------------------------------------------ mirror.py
\* a faulty resolution, against which C9 is tested: a SHA resolves to the
\* newest commit the clone knows
check_commit_resolves_to_newest(m, ref) ==
  IF ref.t = "branch" THEN m.localMain
  ELSE IF ref.t = "sha" /\ ref.c <= m.known THEN m.known
  ELSE 0

\* repo.commit(ref): the commit ref names in the local clone, 0 for None.
\* A local branch resolves to where the clone left it; a SHA resolves when
\* the object has been cloned or fetched.
_check_commit_exists_locally(m, ref) ==
  IF ref.t = "branch" THEN m.localMain
  ELSE IF ref.t = "sha" /\ ref.c <= m.known THEN ref.c
  ELSE 0

\* a faulty clone, against which C33 is tested: without the cleanup of the
\* except branch, a failure after the clone was moved into place leaves it
create_mirror_leaving_clone(up, ref, isDown, t, fault) ==
  LET fresh == [exists |-> TRUE, meta |-> TRUE, head |-> up, localMain |-> up,
                known |-> up, current_ref |-> ref, resolved_commit |-> 0,
                created_at |-> t]
      c == _check_commit_exists_locally(fresh, ref)
      fail(cloned, left, why) ==
        [ok |-> FALSE, m |-> left, fetched |-> FALSE,
         cloneTried |-> TRUE, cloned |-> cloned, why |-> why]
  IN IF isDown THEN fail(FALSE, NoMirror, "GitCommandError")
     ELSE IF c = 0 THEN fail(TRUE, NoMirror, "Reference not found")
     ELSE IF fault
       THEN fail(TRUE, [fresh EXCEPT !.head = c, !.meta = FALSE], "OSError")
     ELSE [ok |-> TRUE,
           m |-> [fresh EXCEPT !.head = c, !.resolved_commit = c],
           fetched |-> FALSE, cloneTried |-> TRUE, cloned |-> TRUE,
           why |-> ""]

\* create_mirror: remove what is there, clone, checkout ref, write sidecar;
\* on any failure the mirror directory is removed and the error re-raised.
\* The result says what was done on the way: cloneTried (git clone was
\* run), cloned (it succeeded), fetched (git fetch was run), and why it
\* failed: "GitCommandError" (clone failed), "Reference not found" (the
\* ValueError raised for a pathspec error of checkout) or "OSError" (with
\* fault, the writing of the sidecar raises).
create_mirror(up, ref, isDown, t, fault) ==
  LET fresh == [exists |-> TRUE, meta |-> TRUE, head |-> up, localMain |-> up,
                known |-> up, current_ref |-> ref, resolved_commit |-> 0,
                created_at |-> t]
      c == _check_commit_exists_locally(fresh, ref)
      fail(cloned, why) ==
        [ok |-> FALSE, m |-> NoMirror, fetched |-> FALSE,
         cloneTried |-> TRUE, cloned |-> cloned, why |-> why]
  IN IF isDown THEN fail(FALSE, "GitCommandError")
     ELSE IF c = 0 THEN fail(TRUE, "Reference not found")
     ELSE IF fault THEN fail(TRUE, "OSError")
     ELSE [ok |-> TRUE,
           m |-> [fresh EXCEPT !.head = c, !.resolved_commit = c],
           fetched |-> FALSE, cloneTried |-> TRUE, cloned |-> TRUE,
           why |-> ""]

\* the sidecar update_mirror writes after an update in place: created_at
\* is kept from the sidecar that was read, or is the time of the call when
\* none could be read
Rewritten(m, ref, c, t) ==
  [m EXCEPT !.head = c, !.current_ref = ref, !.resolved_commit = c,
            !.meta = TRUE, !.created_at = IF m.meta THEN @ ELSE t]

\* a faulty update, against which C17 is tested: it clones afresh on every
\* call
update_mirror_recloning(m, up, ref, isDown, t, fault) ==
  create_mirror(up, ref, isDown, t, fault)

\* a faulty update, against which C18 is tested: a ref still unresolved
\* after the fetch is answered with the commit that is checked out
update_mirror_keeping_head(m, up, ref, isDown, t, fault) ==
  IF ~m.exists THEN create_mirror(up, ref, isDown, t, fault)
  ELSE
    LET c1 == _check_commit_exists_locally(m, ref)
        m2 == [m EXCEPT !.known = up]
        c2 == _check_commit_exists_locally(m2, ref)
    IN IF c1 # 0 \/ (~isDown /\ c2 # 0)
         THEN [ok |-> TRUE,
               m |-> [(IF c1 # 0 THEN m ELSE m2) EXCEPT
                        !.head = IF c1 # 0 THEN c1 ELSE c2,
                        !.current_ref = ref, !.meta = TRUE,
                        !.resolved_commit = IF c1 # 0 THEN c1 ELSE c2],
               fetched |-> c1 = 0, cloneTried |-> FALSE, cloned |-> FALSE,
               why |-> ""]
       ELSE IF isDown
         THEN [create_mirror(up, ref, isDown, t, FALSE) EXCEPT
                 !.fetched = TRUE]
       ELSE [ok |-> TRUE, m |-> [m2 EXCEPT !.current_ref = ref,
                                           !.meta = TRUE,
                                           !.resolved_commit = m.head],
             fetched |-> TRUE, cloneTried |-> FALSE, cloned |-> FALSE,
             why |-> ""]

\* a faulty update, against which C31 is tested: a failure of the update
\* in place is reported and the mirror is left as it is
update_mirror_giving_up(m, up, ref, isDown, t, fault) ==
  IF ~m.exists THEN create_mirror(up, ref, isDown, t, fault)
  ELSE
    LET c1 == _check_commit_exists_locally(m, ref)
        m2 == [m EXCEPT !.known = up]
        c2 == _check_commit_exists_locally(m2, ref)
        in_place(mm, c, fetched) ==
          [ok |-> TRUE, m |-> Rewritten(mm, ref, c, t), fetched |-> fetched,
           cloneTried |-> FALSE, cloned |-> FALSE, why |-> ""]
        give_up(fetched) ==
          [ok |-> FALSE, m |-> m, fetched |-> fetched,
           cloneTried |-> FALSE, cloned |-> FALSE, why |-> "OSError"]
    IN IF c1 # 0
         THEN IF fault THEN give_up(FALSE) ELSE in_place(m, c1, FALSE)
       ELSE IF isDown THEN give_up(TRUE)
       ELSE IF c2 # 0
         THEN IF fault THEN give_up(TRUE) ELSE in_place(m2, c2, TRUE)
       ELSE give_up(TRUE)

\* a faulty update, against which C35 is tested: it fetches from origin
\* before it looks for ref
update_mirror_fetching_first(m, up, ref, isDown, t, fault) ==
  IF ~m.exists THEN create_mirror(up, ref, isDown, t, fault)
  ELSE
    LET m2 == [m EXCEPT !.known = up]
        c2 == _check_commit_exists_locally(m2, ref)
        fall_back ==
          [create_mirror(up, ref, isDown, t, FALSE) EXCEPT !.fetched = TRUE]
    IN IF isDown \/ c2 = 0 \/ fault THEN fall_back
       ELSE [ok |-> TRUE, m |-> Rewritten(m2, ref, c2, t), fetched |-> TRUE,
             cloneTried |-> FALSE, cloned |-> FALSE, why |-> ""]

\* update_mirror: create when absent; otherwise resolve ref locally, fetch
\* only when that fails, checkout, rewrite the sidecar; any exception falls
\* back to create_mirror. With fault, the first writing of the sidecar
\* raises: that of create_mirror when there is no mirror, else that of the
\* update in place (the step every update in place reaches).
update_mirror(m, up, ref, isDown, t, fault) ==
  IF ~m.exists THEN create_mirror(up, ref, isDown, t, fault)
  ELSE
    LET c1 == _check_commit_exists_locally(m, ref)
        m2 == [m EXCEPT !.known = up]
        c2 == _check_commit_exists_locally(m2, ref)
        in_place(mm, c, fetched) ==
          [ok |-> TRUE, m |-> Rewritten(mm, ref, c, t), fetched |-> fetched,
           cloneTried |-> FALSE, cloned |-> FALSE, why |-> ""]
        fall_back(fetched) ==
          [create_mirror(up, ref, isDown, t, FALSE) EXCEPT
             !.fetched = fetched]
    IN IF c1 # 0
         THEN IF fault THEN fall_back(FALSE) ELSE in_place(m, c1, FALSE)
       ELSE IF isDown THEN fall_back(TRUE)
       ELSE IF c2 # 0
         THEN IF fault THEN fall_back(TRUE) ELSE in_place(m2, c2, TRUE)
       ELSE fall_back(TRUE)

\* --------------------------------------------------------- extractor.py
PathBytes(p) ==
  CASE p = "f"    -> <<102>>
    [] p = "f1"   -> <<102, 49>>
    [] p = "f1x"  -> <<102, 49, 120>>
    [] p = "f2"   -> <<102, 50>>
    [] p = "x"    -> <<120>>
    [] p = "file" -> <<102, 105, 108, 101>>
    [] p = ".git" -> <<46, 103, 105, 116>>
    [] OTHER      -> <<46>>

NoSum == <<>>                       \* the empty string "" the code returns
Sha256(bytes) == <<"sha256", bytes>>

RECURSIVE Fold(_, _)
Fold(ps, files) ==
  IF ps = <<>> THEN <<>>
  ELSE PathBytes(Head(ps)) \o <<files[Head(ps)]>> \o Fold(Tail(ps), files)

\* _calculate_directory_checksum: "" unless a directory; otherwise SHA-256
\* over relative path then content of every file in sorted order, skipping
\* files named .analog-hub-meta*
_calculate_directory_checksum(d) ==
  IF d.kind # "dir" THEN NoSum
  ELSE Sha256(Fold(SelectSeq(FileOrder,
                     LAMBDA p : p \in DOMAIN d.files /\ p # MetaName),
                   d.files))

\* hashlib.sha256(f.read()) of a single installed file
FileSha(d) == Sha256(<<d.content>>)

\* _resolve_local_path: the local_path override when given, else
\* library_root/name; the path is resolved and returned, whatever it is
_resolve_local_path(n, spec) ==
  IF spec.local_path # "" THEN spec.local_path ELSE n

\* local_path.relative_to(self.project_root) raises ValueError for a path
\* that is not under the project root
RelativeToRoot(path) ==
  IF path = Outside THEN [ok |-> FALSE, rel |-> ""]
  ELSE [ok |-> TRUE, rel |-> path]

\* what copytree / copy2 puts at the destination from the mirror at m.head
Copied(spec, m) ==
  IF spec.source_path = "dir"
    THEN [kind |-> "dir", files |-> Tree(m.head), content |-> 0]
  ELSE IF spec.source_path = "."
    THEN [kind |-> "dir", files |-> RootTree(m.head), content |-> 0]
  ELSE [kind |-> "file", files |-> <<>>, content |-> m.head]

\* what a copy that raised part-way has left at the destination
PartialCopy(spec) ==
  IF spec.source_path \in {"dir", "."}
    THEN [kind |-> "dir", files |-> <<>>, content |-> 0]
    ELSE [kind |-> "file", files |-> <<>>, content |-> 0]

\* the checksum extract_library stores: of the directory, or of the file
ChecksumOf(d) ==
  IF d.kind = "dir" THEN _calculate_directory_checksum(d) ELSE FileSha(d)

\* metadata.to_yaml(metadata_path): into the directory, or alongside the file
WithMeta(d, t) ==
  IF d.kind = "dir"
    THEN [d EXCEPT !.files = [p \in DOMAIN d.files \cup {MetaName} |->
                                IF p = MetaName THEN t ELSE d.files[p]]]
    ELSE d

\* the except-branch of extract_library: remove the destination if it exists
Cleanup(d) == IF d.kind # "absent" THEN NoDest ELSE d

\* the steps of extract_library after the destination was deleted, at which
\* an OSError can strike
Steps == {"copy", "checksum", "meta"}

\* faulty extractions, against which claims are tested: with merge the
\* destination is not deleted first and the copy goes on top of what is
\* there; without cleanup a failed extraction leaves what it wrote
ExtractVariant(n, spec, m, d, side, t, fault, merge, cleanup) ==
  LET path   == _resolve_local_path(n, spec)
      old    == IF merge /\ d.kind = "dir"
                            /\ spec.source_path \in {"dir", "."}
                  THEN d.files ELSE <<>>
      fresh  == Copied(spec, m)
      copied == [fresh EXCEPT !.files =
                   [p \in DOMAIN old \cup DOMAIN fresh.files |->
                      IF p \in DOMAIN fresh.files THEN fresh.files[p]
                      ELSE old[p]]]
      fail(left, why) ==
        [ok |-> FALSE, dest |-> IF cleanup THEN Cleanup(left) ELSE left,
         side |-> side, checksum |-> NoSum, why |-> why, steps |-> <<>>]
  IN IF spec.source_path = "missing"
       THEN [ok |-> FALSE, dest |-> d, side |-> side, checksum |-> NoSum,
             why |-> "FileNotFoundError", steps |-> <<>>]
     ELSE IF fault = "copy"     THEN fail(PartialCopy(spec), "OSError")
     ELSE IF fault = "checksum" THEN fail(copied, "OSError")
     ELSE IF ~RelativeToRoot(path).ok THEN fail(copied, "ValueError")
     ELSE IF fault = "meta"     THEN fail(copied, "OSError")
     ELSE [ok |-> TRUE, dest |-> WithMeta(copied, t),
           side |-> IF copied.kind = "file" THEN side \cup {n} ELSE side,
           checksum |-> ChecksumOf(copied), why |-> "",
           steps |-> <<"copy", "checksum", "meta">>]

extract_library_merging(n, spec, m, d, side, t, fault) ==
  ExtractVariant(n, spec, m, d, side, t, fault, TRUE, TRUE)

extract_library_leaving_partial(n, spec, m, d, side, t, fault) ==
  ExtractVariant(n, spec, m, d, side, t, fault, FALSE, FALSE)

\* a faulty extraction, against which C34 is tested: the destination is
\* deleted before the source is looked for
extract_library_deleting_first(n, spec, m, d, side, t, fault) ==
  IF spec.source_path = "missing"
    THEN [ok |-> FALSE, dest |-> NoDest, side |-> side, checksum |-> NoSum,
          why |-> "FileNotFoundError", steps |-> <<>>]
  ELSE ExtractVariant(n, spec, m, d, side, t, fault, FALSE, TRUE)

\* extract_library: FileNotFoundError before touching the destination when
\* the source is missing; otherwise delete the destination, copy the
\* mirror's working tree, checksum it, build the metadata (the path relative
\* to the project root) and write the metadata file. An exception after the
\* deletion removes the destination again and is re-raised. d is what is at
\* the resolved path; fault is the step an OSError strikes at, or "none".
\* For an extraction that returned, steps lists in the order they ran the
\* steps of the try block: the copy, the checksum, the writing of the
\* metadata file.
extract_library(n, spec, m, d, side, t, fault) ==
  LET path   == _resolve_local_path(n, spec)
      copied == Copied(spec, m)
      fail(left, why) ==
        [ok |-> FALSE, dest |-> Cleanup(left), side |-> side,
         checksum |-> NoSum, why |-> why, steps |-> <<>>]
  IN IF spec.source_path = "missing"
       THEN [ok |-> FALSE, dest |-> d, side |-> side, checksum |-> NoSum,
             why |-> "FileNotFoundError", steps |-> <<>>]
     ELSE IF fault = "copy"     THEN fail(PartialCopy(spec), "OSError")
     ELSE IF fault = "checksum" THEN fail(copied, "OSError")
     ELSE IF ~RelativeToRoot(path).ok THEN fail(copied, "ValueError")
     ELSE IF fault = "meta"     THEN fail(copied, "OSError")
     ELSE [ok |-> TRUE, dest |-> WithMeta(copied, t),
           side |-> IF copied.kind = "file" THEN side \cup {n} ELSE side,
           checksum |-> ChecksumOf(copied), why |-> "",
           steps |-> <<"copy", "checksum", "meta">>]

\* --------------------------------------------------------- installer.py
\* what an operation works on: the mirrors and the project's files
Disk(mi, de, si) == [mirror |-> mi, dest |-> de, sidecar |-> si]

\* what can go wrong from outside during one operation: the repositories
\* in repos are unreachable; an OSError strikes library lib's extraction at
\* step, or library lib's rewrite of the mirror's sidecar (step "sidecar");
\* step "none": no such error
Trouble(repos, lib, step) == [repos |-> repos, lib |-> lib, step |-> step]

\* one step of install_library and whether it returned
Step(name, ok) == [step |-> name, ok |-> ok]

\* what install_library did on the way: the mirror it found (existed, with
\* a readable sidecar or not), what became of the mirror, the
\* steps it took in order, and the steps inside an extraction that returned
Done(m0, mr, steps, extraction) ==
  [existed |-> m0.exists, hadMeta |-> m0.meta, fetched |-> mr.fetched,
   cloneTried |-> mr.cloneTried, cloned |-> mr.cloned,
   steps |-> steps, extraction |-> extraction]

\* a faulty install, against which C29 is tested: the extraction is run
\* before the result of the mirror update is looked at
install_library_extracting_anyway(n, spec, disk, up, t, trouble) ==
  LET m0   == disk.mirror[spec.repo]
      mr   == update_mirror(m0, up[spec.repo], spec.ref,
                            spec.repo \in trouble.repos, t,
                            trouble.lib = n /\ trouble.step = "sidecar")
      mi   == [disk.mirror EXCEPT ![spec.repo] = mr.m]
      path == _resolve_local_path(n, spec)
      ex   == extract_library(n, spec, mr.m, disk.dest[path], disk.sidecar, t,
                              IF trouble.lib = n /\ trouble.step \in Steps
                                THEN trouble.step ELSE "none")
      both == <<Step("update_mirror", mr.ok), Step("extract_library", ex.ok)>>
  IN IF ~mr.ok \/ ~ex.ok
       THEN [ok |-> FALSE,
             disk |-> Disk(mi, [disk.dest EXCEPT ![path] = ex.dest],
                           disk.sidecar),
             entry |-> <<>>, why |-> IF ~mr.ok THEN mr.why ELSE ex.why,
             did |-> Done(m0, mr, both, ex.steps)]
     ELSE [ok |-> TRUE,
           disk |-> Disk(mi, [disk.dest EXCEPT ![path] = ex.dest], ex.side),
           entry |-> [repo |-> spec.repo, ref |-> spec.ref,
                      commit |-> mr.m.resolved_commit,
                      source_path |-> spec.source_path,
                      local_path |-> RelativeToRoot(path).rel,
                      checksum |-> ex.checksum,
                      installed_at |-> t],
           why |-> "",
           did |-> Done(m0, mr, Append(both, Step("LockEntry", TRUE)),
                        ex.steps)]

\* a faulty install, against which C38 is tested: the extraction reads the
\* working tree of an existing mirror as the library before left it, not
\* as this library's own checkout leaves it
install_library_reading_stale(n, spec, disk, up, t, trouble) ==
  LET m0   == disk.mirror[spec.repo]
      mr   == update_mirror(m0, up[spec.repo], spec.ref,
                            spec.repo \in trouble.repos, t,
                            trouble.lib = n /\ trouble.step = "sidecar")
      mi   == [disk.mirror EXCEPT ![spec.repo] = mr.m]
      path == _resolve_local_path(n, spec)
      ex   == extract_library(n, spec, IF m0.exists THEN m0 ELSE mr.m,
                              disk.dest[path], disk.sidecar, t,
                              IF trouble.lib = n /\ trouble.step \in Steps
                                THEN trouble.step ELSE "none")
      both == <<Step("update_mirror", TRUE), Step("extract_library", ex.ok)>>
  IN IF ~mr.ok
       THEN [ok |-> FALSE, disk |-> [disk EXCEPT !.mirror = mi],
             entry |-> <<>>, why |-> mr.why,
             did |-> Done(m0, mr, <<Step("update_mirror", FALSE)>>, <<>>)]
     ELSE IF ~ex.ok
       THEN [ok |-> FALSE,
             disk |-> Disk(mi, [disk.dest EXCEPT ![path] = ex.dest],
                           disk.sidecar),
             entry |-> <<>>, why |-> ex.why,
             did |-> Done(m0, mr, both, ex.steps)]
     ELSE [ok |-> TRUE,
           disk |-> Disk(mi, [disk.dest EXCEPT ![path] = ex.dest], ex.side),
           entry |-> [repo |-> spec.repo, ref |-> spec.ref,
                      commit |-> mr.m.resolved_commit,
                      source_path |-> spec.source_path,
                      local_path |-> RelativeToRoot(path).rel,
                      checksum |-> ex.checksum,
                      installed_at |-> t],
           why |-> "",
           did |-> Done(m0, mr, Append(both, Step("LockEntry", TRUE)),
                        ex.steps)]

\* install_library: update_mirror, extract_library from the mirror's
\* working tree, then build the LockEntry; any exception becomes an
\* InstallationError (ok = FALSE, why = the exception wrapped) and the disk
\* keeps what the steps did.
install_library(n, spec, disk, up, t, trouble) ==
  LET m0   == disk.mirror[spec.repo]
      mr   == update_mirror(m0, up[spec.repo], spec.ref,
                            spec.repo \in trouble.repos, t,
                            trouble.lib = n /\ trouble.step = "sidecar")
      mi   == [disk.mirror EXCEPT ![spec.repo] = mr.m]
      path == _resolve_local_path(n, spec)
      ex   == extract_library(n, spec, mr.m, disk.dest[path], disk.sidecar, t,
                              IF trouble.lib = n /\ trouble.step \in Steps
                                THEN trouble.step ELSE "none")
      both == <<Step("update_mirror", TRUE), Step("extract_library", ex.ok)>>
  IN IF ~mr.ok
       THEN [ok |-> FALSE, disk |-> [disk EXCEPT !.mirror = mi],
             entry |-> <<>>, why |-> mr.why,
             did |-> Done(m0, mr, <<Step("update_mirror", FALSE)>>, <<>>)]
     ELSE IF ~ex.ok
       THEN [ok |-> FALSE,
             disk |-> Disk(mi, [disk.dest EXCEPT ![path] = ex.dest],
                           disk.sidecar),
             entry |-> <<>>, why |-> ex.why,
             did |-> Done(m0, mr, both, ex.steps)]
     ELSE [ok |-> TRUE,
           disk |-> Disk(mi, [disk.dest EXCEPT ![path] = ex.dest], ex.side),
           entry |-> [repo |-> spec.repo, ref |-> spec.ref,
                      commit |-> mr.m.resolved_commit,
                      source_path |-> spec.source_path,
                      local_path |-> RelativeToRoot(path).rel,
                      checksum |-> ex.checksum,
                      installed_at |-> t],
           why |-> "",
           did |-> Done(m0, mr, Append(both, Step("LockEntry", TRUE)),
                        ex.steps)]

\* what one pass of the install_all loop adds to its collections
Collect(acc, n, r) ==
  [disk      |-> r.disk,
   installed |-> IF r.ok THEN Append(acc.installed,
                                     [name |-> n, entry |-> r.entry])
                 ELSE acc.installed,
   failed    |-> IF r.ok THEN acc.failed ELSE Append(acc.failed, n),
   events    |-> Append(acc.events,
                        [ev |-> IF r.ok THEN "installed" ELSE "failed",
                         lib |-> n, why |-> r.why, did |-> r.did])]

\* a faulty loop, against which C5 is tested: it stops at the first failure
RECURSIVE InstallLoopStopping(_, _, _, _, _, _)
InstallLoopStopping(todo, cfg, acc, up, t, trouble) ==
  IF todo = <<>> THEN acc
  ELSE LET n == Head(todo)
           r == install_library(n, cfg.spec[n], acc.disk, up, t, trouble)
       IN IF r.ok
            THEN InstallLoopStopping(Tail(todo), cfg, Collect(acc, n, r),
                                     up, t, trouble)
            ELSE Collect(acc, n, r)

\* the for-loop of install_all over libraries_to_install (lines 158-174):
\* every library is tried, successes and failures are collected
RECURSIVE InstallLoop(_, _, _, _, _, _)
InstallLoop(todo, cfg, acc, up, t, trouble) ==
  IF todo = <<>> THEN acc
  ELSE LET n == Head(todo)
           r == install_library(n, cfg.spec[n], acc.disk, up, t, trouble)
       IN InstallLoop(Tail(todo), cfg, Collect(acc, n, r),
                      up, t, trouble)

\* dict.update(): existing keys keep their place, new keys are appended
RECURSIVE DictUpdate(_, _)
DictUpdate(lk, items) ==
  IF items = <<>> THEN lk
  ELSE LET it == Head(items)
           dom == SeqToSet(lk.order)
       IN DictUpdate(
            [order |-> IF it.name \in dom THEN lk.order
                       ELSE Append(lk.order, it.name),
             ent   |-> [k \in dom \cup {it.name} |->
                          IF k = it.name THEN it.entry ELSE lk.ent[k]]],
            Tail(items))

\* the record an operation leaves behind: what it returned or raised, the
\* order of its steps, the lockfile, destinations and clock it started
\* from (for clean also the mirrors), and (for install_all) the successful
\* install_all right before it, the names asked for that the manifest
\* lacks and the known libraries a list of names left out
NoPrev == [op |-> "", raised |-> FALSE, returned |-> <<>>]

Outcome(op, todo, raised, returned, failed, events, status) ==
  [op |-> op, todo |-> todo, raised |-> raised, returned |-> returned,
   failed |-> failed, events |-> events, status |-> status,
   lockBefore |-> lock, destBefore |-> dest, clockBefore |-> now,
   mirrorBefore |-> IF op = "clean" THEN mirror ELSE <<>>,
   unknown |-> {}, unnamed |-> {},
   prev |-> IF op = "install_all" /\ last.op = "install_all" /\ ~last.raised
              THEN [op |-> last.op, raised |-> last.raised,
                    returned |-> last.returned]
              ELSE NoPrev]

Idle(op) == [op |-> op, todo |-> <<>>, raised |-> FALSE, returned |-> <<>>,
             failed |-> <<>>, events |-> <<>>, status |-> <<>>,
             lockBefore |-> <<>>, destBefore |-> <<>>, clockBefore |-> 0,
             mirrorBefore |-> <<>>, unknown |-> {}, unnamed |-> {},
             prev |-> NoPrev]

EmptyLock == [order |-> <<>>, ent |-> <<>>]

\* manifests with library a alone, or with a and b where at least one of
\* the two is the plain library (a branch, a directory, the default path)
Manifests ==
  { [order |-> <<"a">>, spec |-> [n \in {"a"} |-> sa]] : sa \in SpecsA } \cup
  { c \in { [order |-> <<"a", "b">>,
             spec |-> [n \in {"a", "b"} |-> IF n = "a" THEN sa ELSE sb]] :
               sa \in SpecsA, sb \in SpecsB } :
      \/ c.spec["a"] = ImportSpec("r1", Main, "dir", "")
      \/ c.spec["b"] = ImportSpec("r2", Main, "dir", "") }

\* library_names of install_all: None (all) or a list of names
Selections == { [all |-> TRUE, names |-> {}] } \cup
              { [all |-> FALSE, names |-> s] :
                  s \in {{"a"}, {"b"}, {"a", "b"}} }

\* a call that treats a list of names as if none had been given
libraries_to_install_as_if_all(sel, c) ==
  [todo |-> c.order, missing |-> {}]

\* the libraries install_all works on, in manifest order, and the names of
\* the list that the manifest does not have
libraries_to_install(sel, c) ==
  [todo    |-> SelectSeq(c.order, LAMBDA n : sel.all \/ n \in sel.names),
   missing |-> IF sel.all THEN {} ELSE sel.names \ SeqToSet(c.order)]

Init ==
  /\ config \in Manifests
  /\ lock = EmptyLock
  /\ upstream = [r \in Repos |-> 1]
  /\ mirror = [r \in Repos |-> NoMirror]
  /\ dest = [p \in Paths |-> IF p = Outside THEN UserData ELSE NoDest]
  /\ sidecar = {}
  /\ now = 0
  /\ env = 0
  /\ last = Idle("init")

\* something from outside goes wrong during the operation
Disturbed(trouble) == trouble.repos # {} \/ trouble.step # "none"

\* install_all(library_names)
install_all(sel, trouble) ==
  LET chosen  == libraries_to_install(sel, config)
      todo    == chosen.todo
      missing == chosen.missing
      \* what the caller asked for: the names of the list the manifest
      \* lacks, and the known libraries the list leaves out
      asked   == sel.names \ SeqToSet(config.order)
      others  == IF sel.all THEN {}
                 ELSE (SeqToSet(config.order) \cup SeqToSet(lock.order))
                        \ sel.names
      out(o)  == [o EXCEPT !.unknown = asked, !.unnamed = others,
                           !.mirrorBefore = IF asked # {} THEN mirror ELSE @]
  IN (Disturbed(trouble) => env < MaxEnv /\ todo # <<>> /\ missing = {})
     /\ (trouble.step # "none" => trouble.lib \in SeqToSet(todo))
     /\ (todo # <<>> /\ missing = {} => now < MaxClock)
     /\
     \E res \in { InstallLoop(todo, config,
                      [disk |-> Disk(mirror, dest, sidecar),
                       installed |-> <<>>, failed |-> <<>>, events |-> <<>>],
                      upstream, now, trouble) } :
     LET names == [i \in 1..Len(res.installed) |-> res.installed[i].name] IN
     /\ (res.installed # <<>>) => now < MaxClock
     /\ env' = IF Disturbed(trouble) THEN env + 1 ELSE env
     /\ IF missing # {}
          THEN /\ last' = out(Outcome("install_all", <<>>, TRUE, <<>>,
                                       <<>>, <<>>, <<>>))
               /\ UNCHANGED <<lock, mirror, dest, sidecar, now>>
        ELSE IF todo = <<>>
          THEN /\ last' = out(Outcome("install_all", <<>>, FALSE, <<>>,
                                       <<>>, <<>>, <<>>))
               /\ UNCHANGED <<lock, mirror, dest, sidecar, now>>
        ELSE /\ mirror' = res.disk.mirror
             /\ dest' = res.disk.dest
             /\ sidecar' = res.disk.sidecar
             /\ now' = IF res.installed # <<>> THEN now + 1 ELSE now
             /\ IF res.failed # <<>>
                  THEN /\ lock' = lock
                       /\ last' = out(Outcome("install_all", todo, TRUE,
                                         <<>>, res.failed, res.events, <<>>))
                  ELSE /\ lock' = DictUpdate(lock, res.installed)
                       /\ last' = out(Outcome("install_all", todo, FALSE,
                                         names, <<>>,
                                         Append(res.events,
                                                [ev |-> "save", lib |-> ""]),
                                         <<>>))
     /\ UNCHANGED <<config, upstream>>

\* the network is up (no repository unreachable) or down (all are)
Outages == {{}, Repos}

\* an operation runs undisturbed, or during an outage, or with an OSError
\* in the extraction or mirror update of library a (b fails through its
\* manifest entry: a missing source_path, an unknown ref)
Troubles == { Trouble(o, "", "none") : o \in Outages } \cup
            { Trouble({}, n, st) : n \in {"a"},
                                   st \in Steps \cup {"sidecar"} }

\* (a list that names the whole manifest selects what None selects, so it
\* is tried only against a manifest that lacks one of its names)
InstallAll == \E sel \in Selections, trouble \in Troubles :
                 /\ sel.names = {"a", "b"} => SeqToSet(config.order) # {"a", "b"}
                 /\ install_all(sel, trouble)

\* the origin's branch main gets a new commit (the model moves r1 only)
Push == \E r \in {"r1"} :
  /\ env < MaxEnv
  /\ env' = env + 1
  /\ upstream' = [upstream EXCEPT ![r] = @ + 1]
  /\ last' = Idle("push")
  /\ UNCHANGED <<config, lock, mirror, dest, sidecar, now>>

\* the user rewrites analog-hub.yaml
\* (one library added, removed or changed at a time)
OneChange(c1, c2) ==
  LET d1 == SeqToSet(c1.order)
      d2 == SeqToSet(c2.order)
  IN \/ /\ d1 = d2
        /\ Cardinality({n \in d1 : c1.spec[n] # c2.spec[n]}) = 1
     \/ /\ d1 # d2
        /\ d1 \subseteq d2 \/ d2 \subseteq d1
        /\ \A n \in d1 \cap d2 : c1.spec[n] = c2.spec[n]

EditManifest == \E c \in Manifests :
  /\ env < MaxEnv
  /\ env' = env + 1
  /\ OneChange(config, c)
  /\ config' = c
  /\ last' = Idle("edit_manifest")
  /\ UNCHANGED <<lock, upstream, mirror, dest, sidecar, now>>

\* the sidecar .mirror-meta.yaml of a mirror gets lost or unreadable (the
\* model damages r1's only)
DamageMirror == \E r \in {"r1"} :
  /\ env < MaxEnv
  /\ mirror[r].exists /\ mirror[r].meta
  /\ env' = env + 1
  /\ mirror' = [mirror EXCEPT ![r].meta = FALSE]
  /\ last' = Idle("damage_mirror")
  /\ UNCHANGED <<config, lock, upstream, dest, sidecar, now>>

\* the user changes installed files by hand: edits f1, adds x, or removes
\* the whole destination
Tampered(d) ==
  IF d.kind = "dir"
    THEN { [d EXCEPT !.files = [p \in DOMAIN d.files |->
                                 IF p = "f1" THEN 0 ELSE d.files[p]]],
           [d EXCEPT !.files = [p \in DOMAIN d.files \cup {"x"} |->
                                 IF p = "x" THEN 0 ELSE d.files[p]]],
           NoDest } \ {d}
  ELSE IF d.kind = "file" THEN {[d EXCEPT !.content = 0], NoDest} \ {d}
  ELSE {}

\* (the model changes the files of library a only)
Tamper == \E n \in {"a"} : \E d \in Tampered(dest[n]) :
  /\ env < MaxEnv
  /\ env' = env + 1
  /\ dest' = [dest EXCEPT ![n] = d]
  /\ last' = Idle("tamper")
  /\ UNCHANGED <<config, lock, upstream, mirror, sidecar, now>>

\* update_library(library_name) from a given lockfile and disk: the call
\* to remove_library gets the name (a str), raises and is only warned
\* about; then install_library, and the lockfile is saved on success
NothingDone == [existed |-> FALSE, hadMeta |-> FALSE, fetched |-> FALSE,
                cloneTried |-> FALSE, cloned |-> FALSE, steps |-> <<>>,
                extraction |-> <<>>]

\* what update_library makes of install_library's outcome r: on success
\* the library's lock entry is replaced and the lockfile saved
Relocked(n, lk, r) ==
  IF r.ok
    THEN [ok |-> TRUE,
          lock |-> [lk EXCEPT !.ent[n] = r.entry], disk |-> r.disk,
          why |-> "", did |-> r.did]
    ELSE [ok |-> FALSE, lock |-> lk, disk |-> r.disk,
          why |-> r.why, did |-> r.did]

update_library(n, lk, disk, t, trouble) ==
  IF n \notin SeqToSet(config.order)
    THEN [ok |-> FALSE, lock |-> lk, disk |-> disk,
          why |-> "not found in configuration", did |-> NothingDone]
  ELSE IF n \notin SeqToSet(lk.order)
    THEN [ok |-> FALSE, lock |-> lk, disk |-> disk,
          why |-> "not currently installed", did |-> NothingDone]
  ELSE Relocked(n, lk,
                install_library(n, config.spec[n], disk, upstream, t,
                                trouble))

\* what one pass of the update_all loop adds to its collections
CollectUpdate(acc, n, r) ==
  [disk     |-> r.disk,
   lock     |-> r.lock,
   updated  |-> IF r.ok THEN Append(acc.updated, n) ELSE acc.updated,
   failed   |-> IF r.ok THEN acc.failed ELSE Append(acc.failed, n),
   ticks    |-> acc.ticks + (IF r.ok THEN 1 ELSE 0),
   events   |-> acc.events \o
                (IF r.ok THEN << [ev |-> "installed", lib |-> n,
                                  why |-> "", did |-> r.did],
                                 [ev |-> "save", lib |-> n] >>
                 ELSE << [ev |-> "failed", lib |-> n,
                          why |-> r.why, did |-> r.did] >>)]

\* the for-loop of update_all (lines 279-286)
RECURSIVE UpdateLoop(_, _, _, _)
UpdateLoop(todo, acc, t, trouble) ==
  IF todo = <<>> THEN acc
  ELSE UpdateLoop(Tail(todo),
                  CollectUpdate(acc, Head(todo),
                                update_library(Head(todo), acc.lock,
                                               acc.disk, t, trouble)),
                  t, trouble)

\* library_names of update_all: None or a list of names
UpdateLists == { <<"a">>, <<"b", "a">> }

\* update_all(library_names)
update_all(all, list, trouble) ==
  LET todo == IF all THEN lock.order ELSE list
      not_installed == IF all THEN {}
                       ELSE SeqToSet(list) \ SeqToSet(lock.order)
  IN (Disturbed(trouble) =>
          env < MaxEnv /\ todo # <<>> /\ not_installed = {})
     /\ (trouble.step # "none" => trouble.lib \in SeqToSet(todo))
     /\ (todo # <<>> /\ not_installed = {} => now < MaxClock)
     /\
     \E res \in { UpdateLoop(todo,
                      [disk |-> Disk(mirror, dest, sidecar), lock |-> lock,
                       updated |-> <<>>, failed |-> <<>>, ticks |-> 0,
                       events |-> <<>>],
                      now, trouble) } :
     /\ res.ticks > 0 => now < MaxClock
     /\ env' = IF Disturbed(trouble) THEN env + 1 ELSE env
     /\ IF not_installed # {}
          THEN /\ last' = Outcome("update_all", <<>>, TRUE, <<>>, <<>>, <<>>,
                                   <<>>)
               /\ UNCHANGED <<lock, mirror, dest, sidecar, now>>
        ELSE /\ mirror' = res.disk.mirror
             /\ dest' = res.disk.dest
             /\ sidecar' = res.disk.sidecar
             /\ lock' = res.lock
             /\ now' = IF res.ticks > 0 THEN now + 1 ELSE now
             /\ last' = Outcome("update_all", todo, res.failed # <<>>,
                                IF res.failed # <<>> THEN <<>> ELSE res.updated,
                                res.failed, res.events, <<>>)
     /\ UNCHANGED <<config, upstream>>

UpdateAll == \E trouble \in Troubles :
  \/ update_all(TRUE, <<>>, trouble)
  \/ \E list \in UpdateLists : update_all(FALSE, list, trouble)

\* validate_installation for one lock entry
ValidationOf(e, d) ==
  IF d.kind = "absent" THEN "not found"
  ELSE IF d.kind # "dir" \/ MetaName \notin DOMAIN d.files
    THEN "metadata file missing"
  ELSE IF _calculate_directory_checksum(d) # e.checksum
    THEN "checksum mismatch"
  ELSE "valid"

\* validate_installation(): every lock entry is in valid_libraries or in
\* invalid_libraries, here with the reason
validate_installation ==
  [n \in SeqToSet(lock.order) |-> ValidationOf(lock.ent[n], dest[lock.ent[n].local_path])]

\* the exit code of the validate command, which runs validate_installation:
\* sys.exit(1) when a library is not valid, 0 otherwise
ExitCode(results) ==
  IF \E n \in DOMAIN results : results[n] # "valid" THEN 1 ELSE 0

\* a faulty validation, against which C19 is tested: it writes the
\* checksums it recomputed back into the lockfile
ValidateInstallationRefreshing ==
  /\ last' = Outcome("validate_installation", <<>>, FALSE,
                     <<ExitCode(validate_installation)>>, <<>>, <<>>,
                     validate_installation)
  /\ lock' = [lock EXCEPT !.ent =
                [n \in DOMAIN lock.ent |->
                   [lock.ent[n] EXCEPT !.checksum =
                      ChecksumOf(dest[lock.ent[n].local_path])]]]
  /\ UNCHANGED <<config, upstream, mirror, dest, sidecar, now, env>>

\* validate_installation() as the validate command runs it: last.status is
\* what the method returns, last.returned the exit code of the command
ValidateInstallation ==
  /\ last' = Outcome("validate_installation", <<>>, FALSE,
                     <<ExitCode(validate_installation)>>, <<>>, <<>>,
                     validate_installation)
  /\ UNCHANGED <<config, lock, upstream, mirror, dest, sidecar, now, env>>

\* list_mirrors(): a dict keyed by the repo_url of every mirror directory
\* that has a sidecar; the model gives its keys
list_mirrors(mi) == { r \in Repos : mi[r].exists /\ mi[r].meta }

\* clean_unused_mirrors(): the loop runs over the dict list_mirrors
\* returned, that is over its keys, and mirror_info['repo_url'] on a key (a
\* str) raises TypeError in the condition of the first pass, outside the
\* try: with any mirror listed the call raises before it removes anything.
\* With none listed the loop body never runs and nothing is removed.
clean_unused_mirrors(lk, mi) ==
  LET used_repos == { lk.ent[n].repo : n \in SeqToSet(lk.order) }
      existing_mirrors == list_mirrors(mi)
  IN IF existing_mirrors # {}
       THEN [raised |-> TRUE, why |-> "TypeError", mirror |-> mi,
             removed |-> {}]
     ELSE [raised |-> FALSE, why |-> "", mirror |-> mi,
           removed |-> { r \in existing_mirrors : r \notin used_repos }]

\* clean_orphaned_libraries(): drop the lock entries whose name is not in
\* the manifest and save the lockfile; the installed files are left alone
clean_orphaned_libraries(lk, cfg) ==
  LET keep == SelectSeq(lk.order, LAMBDA n : n \in SeqToSet(cfg.order))
  IN [order |-> keep, ent |-> [n \in SeqToSet(keep) |-> lk.ent[n]]]

\* a faulty clean, against which C24 is tested: it also removes what the
\* libraries it finds orphaned have installed
CleanRemovingOrphans ==
  LET orphans == SeqToSet(lock.order) \ SeqToSet(config.order) IN
  /\ dest' = [p \in Paths |->
               IF \E n \in orphans : lock.ent[n].local_path = p
                 THEN NoDest ELSE dest[p]]
  /\ last' = Outcome("clean", <<>>, TRUE, <<>>, <<>>, <<>>, <<>>)
  /\ UNCHANGED <<config, lock, upstream, mirror, sidecar, now, env>>

\* the clean command: clean_unused_mirrors, clean_orphaned_libraries, then
\* validate_installation on what is left. Only InstallationError is caught,
\* so the TypeError of clean_unused_mirrors ends the command right there.
Clean ==
  LET cm == clean_unused_mirrors(lock, mirror)
      lk == clean_orphaned_libraries(lock, config)
  IN IF cm.raised
       THEN /\ last' = Outcome("clean", <<>>, TRUE, <<>>, <<>>, <<>>, <<>>)
            /\ UNCHANGED <<config, lock, upstream, mirror, dest, sidecar,
                           now, env>>
     ELSE /\ mirror' = cm.mirror
          /\ lock' = lk
          /\ last' = Outcome("clean", <<>>, FALSE, <<>>, <<>>, <<>>,
                             [n \in SeqToSet(lk.order) |->
                                ValidationOf(lk.ent[n],
                                             dest[lk.ent[n].local_path])])
          /\ UNCHANGED <<config, upstream, dest, sidecar, now, env>>

Next == InstallAll \/ UpdateAll \/ ValidateInstallation
        \/ Push \/ Tamper \/ EditManifest \/ DamageMirror
        \/ Clean

Spec == Init /\ [][Next]_vars

\* the tool used with install_all and clean only, and nobody editing the
\* installed files by hand
QuietNext == InstallAll \/ Clean \/ Push \/ EditManifest \/ DamageMirror

QuietSpec == Init /\ [][QuietNext]_vars

\* ------------------------------------------ the mirror of a repository URL
\* A URL is the sequence of its pieces: how it begins, owner/repository,
\* and a tail of "/" and ".git" pieces in either case.
MaxTail == 2      \* pieces after owner/repository

UrlHeads  == {"https://github.com/", "HTTPS://GitHub.com/",
              "git@github.com:", "git@GitHub.com:",
              "https://gitlab.com/", "git@gitlab.com:"}
UrlBodies == {"user/repo", "User/Repo"}
UrlTails  == {"/", ".git", ".GIT"}
Urls == { <<h, b>> \o t : h \in UrlHeads, b \in UrlBodies,
                          t \in UNION { [1..k -> UrlTails] : k \in 0..MaxTail } }

\* str.lower() of a piece
Lower(piece) ==
  CASE piece = "HTTPS://GitHub.com/" -> "https://github.com/"
    [] piece = "git@GitHub.com:"     -> "git@github.com:"
    [] piece = "User/Repo"           -> "user/repo"
    [] piece = ".GIT"                -> ".git"
    [] OTHER                         -> piece

\* str.rstrip('/'): every trailing "/" goes
RECURSIVE RStrip(_)
RStrip(u) ==
  IF u # <<>> /\ u[Len(u)] = "/" THEN RStrip(SubSeq(u, 1, Len(u) - 1)) ELSE u

\* _normalize_repo_url: rstrip('/'), drop one ".git" at the end, turn the
\* git@github.com: (git@gitlab.com:) beginning into https://github.com/
\* (https://gitlab.com/), then lower()
_normalize_repo_url(repo_url) ==
  LET stripped == RStrip(repo_url)
      nogit == IF stripped # <<>> /\ stripped[Len(stripped)] = ".git"
                 THEN SubSeq(stripped, 1, Len(stripped) - 1) ELSE stripped
      https == IF nogit # <<>> /\ nogit[1] = "git@github.com:"
                 THEN [nogit EXCEPT ![1] = "https://github.com/"]
               ELSE IF nogit # <<>> /\ nogit[1] = "git@gitlab.com:"
                 THEN [nogit EXCEPT ![1] = "https://gitlab.com/"]
               ELSE nogit
  IN [i \in 1..Len(https) |-> Lower(https[i])]

\* _generate_repo_hash: SHA-256 of the normalized URL (its first 8 bytes,
\* taken to be free of collisions); get_mirror_path is mirror_root/<hash>
_generate_repo_hash(repo_url) == Sha256(_normalize_repo_url(repo_url))

\* two libraries whose manifest entries spell their repository URLs freely
UrlInit ==
  /\ \E u \in Urls, v \in Urls :
       config = [order |-> <<"a", "b">>,
                 spec |-> [n \in {"a", "b"} |->
                   ImportSpec(IF n = "a" THEN u ELSE v, Main, "dir", "")]]
  /\ lock = EmptyLock
  /\ upstream = [r \in Repos |-> 1]
  /\ mirror = [r \in Repos |-> NoMirror]
  /\ dest = [p \in Paths |-> IF p = Outside THEN UserData ELSE NoDest]
  /\ sidecar = {}
  /\ now = 0
  /\ env = 0
  /\ last = Idle("init")

\* get_mirror_path for the repository of each library
GetMirrorPath ==
  /\ last' = [Idle("get_mirror_path") EXCEPT !.returned =
               [i \in 1..Len(config.order) |->
                  _generate_repo_hash(config.spec[config.order[i]].repo)]]
  /\ UNCHANGED <<config, lock, upstream, mirror, dest, sidecar, now, env>>

UrlNext == GetMirrorPath

UrlSpec == UrlInit /\ [][UrlNext]_vars

\* ---------------------------------------- the checksum of two directories
\* Two directories X and Y hold files with short names and one byte of
\* content each ("0" or "1"), and maybe the tool's metadata file.
SumPaths == {"f", "f1x", "x", MetaName}
SumBytes == {48, 49}
SumDirs  == UNION { [S -> SumBytes] : S \in SUBSET SumPaths }

SumInit ==
  /\ \E X \in SumDirs, Y \in SumDirs :
       dest = [p \in Paths |->
                 IF p = "a" THEN [kind |-> "dir", files |-> X, content |-> 0]
                 ELSE IF p = "b"
                   THEN [kind |-> "dir", files |-> Y, content |-> 0]
                 ELSE UserData]
  /\ config = [order |-> <<"a">>,
               spec |-> [n \in {"a"} |-> ImportSpec("r1", Main, "dir", "")]]
  /\ lock = EmptyLock
  /\ upstream = [r \in Repos |-> 1]
  /\ mirror = [r \in Repos |-> NoMirror]
  /\ sidecar = {}
  /\ now = 0
  /\ env = 0
  /\ last = Idle("init")

\* _calculate_directory_checksum of the one and of the other
ChecksumBoth ==
  /\ last' = [Idle("checksum") EXCEPT !.returned =
               << _calculate_directory_checksum(dest["a"]),
                  _calculate_directory_checksum(dest["b"]) >>]
  /\ UNCHANGED <<config, lock, upstream, mirror, dest, sidecar, now, env>>

SumNext == ChecksumBoth

SumSpec == SumInit /\ [][SumNext]_vars

\* ================================================================ claims
Locked(lk) == SeqToSet(lk.order)

\* the libraries the last operation extracted / failed on, from its steps
Did(ev) == { last.events[i].lib : i \in { j \in 1..Len(last.events) :
                                            last.events[j].ev = ev } }

\* the batch steps of the last operation, without the lockfile writes
Attempts == SelectSeq(last.events, LAMBDA e : e.ev # "save")

\* an install_all that really ran its loop
RanInstall == last.op = "install_all" /\ last.todo # <<>>

\* an entry written by the last operation (its timestamp was read in it)
IsNew(lk, n) == n \in Locked(lk) /\ lk.ent[n].installed_at >= last.clockBefore

\* C1: after an install_all batch with at least one failure and at least
\* one success, the lockfile holds the new entry of every library that
\* succeeded and no new entry of a library that failed.
C1_PartialProgressIsDurable ==
  (RanInstall /\ Did("failed") # {} /\ Did("installed") # {}) =>
     /\ \A n \in Did("installed") : IsNew(lock, n)
     /\ \A n \in Did("failed") : ~IsNew(lock, n)

\* C2: after install_all returns successfully, validate_installation
\* reports every library of the lockfile as valid.
C2_ValidAfterInstall ==
  (last.op = "install_all" /\ ~last.raised) =>
     \A n \in Locked(lock) : validate_installation[n] = "valid"

\* C3: an install_all that directly follows a successful install_all of
\* the same libraries (nothing changed in between) extracts nothing,
\* returns nothing as changed and leaves the lockfile as it was.
C3_SecondRunIsNoOp ==
  (RanInstall /\ last.prev.op = "install_all"
     /\ SeqToSet(last.todo) \subseteq SeqToSet(last.prev.returned)) =>
     /\ Did("installed") = {}
     /\ last.returned = <<>>
     /\ lock = last.lockBefore

\* C4: an operation that changes lock entries writes the lockfile exactly
\* once, after every planned library action has finished.
C4_OneWriteAtTheEnd ==
  (last.op \in {"install_all", "update_all"} /\ lock # last.lockBefore) =>
     /\ Cardinality({ i \in 1..Len(last.events) :
                        last.events[i].ev = "save" }) = 1
     /\ last.events[Len(last.events)].ev = "save"

\* what an installed destination holds besides the tool's metadata file
Payload(d) ==
  [kind |-> d.kind, content |-> d.content,
   files |-> [p \in DOMAIN d.files \ {MetaName} |-> d.files[p]]]

\* what source_path holds in the repository at commit c
UpstreamPayload(spec, c) ==
  IF spec.source_path = "dir"
    THEN [kind |-> "dir", content |-> 0, files |-> Tree(c)]
  ELSE IF spec.source_path = "."
    THEN [kind |-> "dir", content |-> 0, files |-> RootTree(c)]
  ELSE [kind |-> "file", content |-> c,
        files |-> [p \in {} |-> 0]]

\* library n was installed from a branch with the manifest entry it still
\* has, its files are there, and the upstream branch has moved since
BranchMoved(n) ==
  /\ n \in SeqToSet(last.todo)
  /\ n \in Locked(last.lockBefore)
  /\ config.spec[n].ref.t = "branch"
  /\ last.lockBefore.ent[n].repo = config.spec[n].repo
  /\ last.lockBefore.ent[n].ref = config.spec[n].ref
  /\ last.lockBefore.ent[n].source_path = config.spec[n].source_path
  /\ last.destBefore[n].kind # "absent"
  /\ upstream[config.spec[n].repo] > last.lockBefore.ent[n].commit

C6_MovedBranchIsSkipped ==
  RanInstall =>
     \A n \in Names : BranchMoved(n) =>
        /\ n \notin SeqToSet(last.returned)
        /\ n \notin Did("installed")
        /\ n \in Locked(lock) /\ lock.ent[n] = last.lockBefore.ent[n]

\* C7: when the upstream branch has new commits, a plain install_all
\* reinstalls the library at the new upstream commit: returned entry and
\* lock entry carry it, and the destination holds the new upstream files.
C7_MovedBranchIsReinstalled ==
  (RanInstall /\ ~last.raised) =>
     \A n \in Names : BranchMoved(n) =>
        /\ n \in SeqToSet(last.returned)
        /\ lock.ent[n].commit = upstream[config.spec[n].repo]
        /\ Payload(dest[n]) =
             UpstreamPayload(config.spec[n], upstream[config.spec[n].repo])

\* C8: install with check-remote-updates of a library whose upstream
\* branch has moved past the locked commit: the library is updated, the
\* lock entry's commit becomes the new upstream SHA (the code has one
\* install path and no such switch, so this is said of every install).
C8_CheckRemoteUpdatesLockCommit ==
  (RanInstall /\ ~last.raised) =>
     \A n \in Names : BranchMoved(n) =>
        /\ n \in Locked(lock)
        /\ lock.ent[n].commit > last.lockBefore.ent[n].commit
        /\ lock.ent[n].commit = upstream[lock.ent[n].repo]

\* C9: a library pinned to a commit SHA never gets another commit in its
\* lock entry, and an install never puts another commit's files into its
\* destination, however far upstream has moved.
C9_PinnedCommitNeverMoves ==
  /\ \A n \in Locked(lock) :
        lock.ent[n].ref.t = "sha" => lock.ent[n].commit = lock.ent[n].ref.c
  /\ last.op \in {"install_all", "update_all"} =>
        \A n \in Did("installed") :
           config.spec[n].ref.t = "sha" =>
              Payload(dest[n]) = UpstreamPayload(config.spec[n],
                                                 config.spec[n].ref.c)

C9_Witness ==
  /\ RanInstall /\ ~last.raised
  /\ "a" \in SeqToSet(last.returned)
  /\ "a" \in Locked(last.lockBefore)
  /\ config.spec["a"].ref.t = "sha"
  /\ upstream["r1"] > config.spec["a"].ref.c
  /\ lock.ent["a"].commit = config.spec["a"].ref.c

RanBatch == last.op \in {"install_all", "update_all"} /\ last.todo # <<>>

\* the attempts of the last batch, each with what was done for the library
AttemptsOf(n) == { i \in 1..Len(last.events) :
                     last.events[i].ev # "save" /\ last.events[i].lib = n }

\* the path library n of the manifest is installed at
PathOf(n) == _resolve_local_path(n, config.spec[n])

\* library n's local_path leaves the project root
Escapes(n) == ~RelativeToRoot(PathOf(n)).ok

\* library n is the last of the batch to work on the mirror of its
\* repository: the mirror is as n's update left it
LastOnMirror(n) ==
  \A j \in 1..Len(last.todo) :
     ( /\ last.todo[j] \in SeqToSet(config.order)
       /\ config.spec[last.todo[j]].repo = config.spec[n].repo )
     => \E k \in j..Len(last.todo) : last.todo[k] = n

\* C11: when extraction raises after the destination has been deleted
\* (in the copy, the checksum, or the writing of the metadata), the
\* destination path does not exist once the error has propagated.
C11_FailedExtractionLeavesNoDestination ==
  RanBatch =>
     \A n \in SeqToSet(last.todo) : \A i \in AttemptsOf(n) :
        (last.events[i].ev = "failed"
         /\ last.events[i].did.steps = <<Step("update_mirror", TRUE),
                                         Step("extract_library", FALSE)>>
         /\ last.events[i].why \in {"OSError", "ValueError"})
          => dest[PathOf(n)].kind = "absent"

C11_Witness ==
  /\ RanBatch /\ last.raised
  /\ \E n \in SeqToSet(last.todo) : \E i \in AttemptsOf(n) :
        /\ last.events[i].why = "OSError"
        /\ Len(last.events[i].did.steps) = 2
        /\ last.destBefore[PathOf(n)].kind = "dir"
        /\ dest[PathOf(n)].kind = "absent"

\* C12: after a successful extraction into a destination that already
\* existed, the destination holds only what this extraction produced: the
\* files of the mirror at the resolved commit and this extraction's
\* metadata file, nothing of the previous content.
C12_ExtractionReplacesDestination ==
  RanBatch =>
     \A n \in Did("installed") :
        (last.destBefore[n].kind # "absent" /\ LastOnMirror(n)) =>
           LET up == UpstreamPayload(config.spec[n],
                       mirror[config.spec[n].repo].resolved_commit)
           IN /\ dest[n].kind = up.kind
              /\ dest[n].content = up.content
              /\ \A p \in DOMAIN dest[n].files :
                    IF p = MetaName
                      THEN dest[n].files[p] = last.clockBefore
                      ELSE /\ p \in DOMAIN up.files
                           /\ dest[n].files[p] = up.files[p]

C12_Witness ==
  /\ RanBatch
  /\ \E n \in Did("installed") :
        /\ last.destBefore[n].kind = "dir"
        /\ dest[n].kind = "file"

\* C13: nothing outside the project root is ever created, overwritten or
\* deleted, whatever local_path the manifest gives and also when the
\* extraction fails.
C13_NothingOutsideIsTouched == dest[Outside] = UserData

\* C14: resolving the destination of a library whose local_path leaves the
\* project root raises PathEscape: the library's attempt fails with that
\* error.
C14_EscapingPathIsRefused ==
  RanBatch =>
     \A n \in SeqToSet(last.todo) \cap SeqToSet(config.order) :
        Escapes(n) =>
           \A i \in AttemptsOf(n) :
              /\ last.events[i].ev = "failed"
              /\ last.events[i].why = "PathEscape"

\* C15: a repository URL that the URL rules refuse fails with InvalidURL
\* before anything is done: no clone, no fetch, no mirror on disk.
C15_BadUrlFailsBeforeAnyIO ==
  RanBatch =>
     \A n \in SeqToSet(last.todo) \cap SeqToSet(config.order) :
        config.spec[n].repo \in BadUrls =>
           /\ ~mirror[config.spec[n].repo].exists
           /\ \A i \in AttemptsOf(n) :
                 /\ last.events[i].ev = "failed"
                 /\ last.events[i].why = "InvalidURL"
                 /\ ~last.events[i].did.cloneTried
                 /\ ~last.events[i].did.fetched

\* C16: a library refused for its URL or its path is not worked on any
\* further: it is not installed, no existing mirror is cloned afresh for
\* it, and no destination is written for it.
C16_HardErrorsAreNotRecovered ==
  RanBatch =>
     \A n \in SeqToSet(last.todo) \cap SeqToSet(config.order) :
        (config.spec[n].repo \in BadUrls \/ Escapes(n)) =>
           /\ n \notin Did("installed")
           /\ dest[PathOf(n)] = last.destBefore[PathOf(n)]
           /\ \A i \in AttemptsOf(n) :
                 ~(last.events[i].did.existed /\ last.events[i].did.cloneTried)

\* C17: update_mirror is idempotent: after it returned, the mirror's HEAD
\* is the resolved commit, and a second call with the same url and ref
\* (upstream unchanged, network up or down) returns the same commit,
\* keeps created_at and the checked-out tree, and does not clone.
C17_UpdateMirrorIsIdempotent ==
  RanBatch =>
     \A n \in Did("installed") : LastOnMirror(n) =>
        LET url == config.spec[n].repo
            m   == mirror[url]
        IN /\ m.exists /\ m.head = m.resolved_commit
           /\ \A isDown \in BOOLEAN :
                 LET again == update_mirror(m, upstream[url],
                                            config.spec[n].ref, isDown, now,
                                            FALSE)
                 IN /\ again.ok
                    /\ again.m.resolved_commit = m.resolved_commit
                    /\ again.m.head = m.head
                    /\ again.m.created_at = m.created_at
                    /\ ~again.cloneTried

C17_Witness ==
  /\ RanBatch
  /\ \E n \in Did("installed") : \E i \in AttemptsOf(n) :
        /\ last.events[i].did.existed
        /\ ~last.events[i].did.cloneTried
        /\ n \in Locked(last.lockBefore)
        /\ last.lockBefore.ent[n].commit
             = mirror[config.spec[n].repo].resolved_commit
        /\ mirror[config.spec[n].repo].created_at < last.clockBefore

C19_ValidateChangesNothing ==
  [][last'.op = "validate_installation" =>
       UNCHANGED <<config, lock, upstream, mirror, dest, sidecar>>]_vars

C19_Witness ==
  /\ last.op = "validate_installation"
  /\ \E n \in Locked(lock) :
        /\ last.status[n] = "checksum mismatch"
        /\ lock.ent[n].checksum # ChecksumOf(dest[lock.ent[n].local_path])

\* what the validation of a lock entry has to say, from the destination
\* and the checksum recomputed the way extraction computed it
Expected(e, d) ==
  IF d.kind = "absent" THEN "not found"
  ELSE IF ChecksumOf(d) = e.checksum THEN "valid"
  ELSE "checksum mismatch"

\* C20: for every lock entry whose name is in the manifest,
\* validate_installation reports missing exactly when the destination does
\* not exist, valid exactly when it exists with the recorded checksum, and
\* modified exactly when it exists with another checksum.
C20_ValidationTellsTheThreeCases ==
  last.op = "validate_installation" =>
     \A n \in Locked(lock) \cap SeqToSet(config.order) :
        last.status[n] = Expected(lock.ent[n], dest[lock.ent[n].local_path])

\* the names of the manifest
Imports == SeqToSet(config.order)

\* C21: validate_installation returns one entry for every name in the
\* lockfile, and every lockfile name that is not in the manifest is reported
\* "orphaned", whatever the state of its files.
C21_OrphansAreReportedOrphaned ==
  last.op = "validate_installation" =>
    /\ DOMAIN last.status = Locked(lock)
    /\ \A n \in Locked(lock) \ Imports : last.status[n] = "orphaned"

\* C22: after clean, the lockfile has no entry whose name is absent from the
\* manifest, and the entries of libraries still in the manifest are kept
\* unchanged.
C22_CleanDropsOrphanEntries ==
  last.op = "clean" =>
    /\ Locked(lock) \subseteq Imports
    /\ \A n \in Locked(last.lockBefore) \cap Imports :
         n \in Locked(lock) /\ lock.ent[n] = last.lockBefore.ent[n]

\* the repository of some entry of the lockfile
Referenced(lk, r) == \E n \in Locked(lk) : lk.ent[n].repo = r

\* C23: after one run of clean, a mirror that existed before the run still
\* exists if and only if some lock entry remaining after the run references
\* its repository.
C23_CleanKeepsReferencedMirrorsOnly ==
  last.op = "clean" =>
    \A r \in Repos :
      last.mirrorBefore[r].exists =>
        (mirror[r].exists <=> Referenced(lock, r))

C25_LockfileFollowsManifestOrder ==
  (RanInstall /\ ~last.raised) =>
    SelectSeq(lock.order, LAMBDA n : n \in SeqToSet(last.returned))
      = SelectSeq(config.order, LAMBDA n : n \in SeqToSet(last.returned))

\* the normal form the specification gives: lowercase, strip trailing "/",
\* strip a trailing ".git", git@github.com: becomes https://github.com/
\* (the same for gitlab)
Spelling(u) ==
  LET low == [i \in 1..Len(u) |-> Lower(u[i])]
      stripped == RStrip(low)
      nogit == IF stripped # <<>> /\ stripped[Len(stripped)] = ".git"
                 THEN SubSeq(stripped, 1, Len(stripped) - 1) ELSE stripped
  IN IF nogit # <<>> /\ nogit[1] = "git@github.com:"
       THEN [nogit EXCEPT ![1] = "https://github.com/"]
     ELSE IF nogit # <<>> /\ nogit[1] = "git@gitlab.com:"
       THEN [nogit EXCEPT ![1] = "https://gitlab.com/"]
     ELSE nogit

\* C26: two repository URLs that differ only in letter case, a trailing
\* "/", a trailing ".git" or the git@github.com: form against the https://
\* form have the same repo_hash, hence the same mirror directory.
C26_SpellingsShareOneMirror ==
  (last.op = "get_mirror_path"
     /\ Spelling(config.spec["a"].repo) = Spelling(config.spec["b"].repo))
    => last.returned[1] = last.returned[2]

\* the status the specification gives a lock entry: orphaned when its name
\* is not in the manifest, otherwise by its files
Classified(n) ==
  IF n \notin Imports THEN "orphaned"
  ELSE Expected(lock.ent[n], dest[lock.ent[n].local_path])

\* C27: the validate command exits with 0 when every library of the
\* lockfile is valid or orphaned, and with 3 when at least one is modified,
\* missing or in error.
C27_ValidateExitCode ==
  last.op = "validate_installation" =>
    last.returned =
      << IF \A n \in Locked(lock) : Classified(n) \in {"valid", "orphaned"}
           THEN 0 ELSE 3 >>

\* the action the planning rules give library n, from the manifest and from
\* the lockfile and destinations the operation started with (install_all
\* takes neither force nor check_remote, so those two rules never match)
Plan(n) ==
  LET lk == last.lockBefore
      sp == config.spec[n]
  IN IF n \notin Locked(lk) THEN "Install"
     ELSE IF <<sp.repo, sp.ref, sp.source_path>>
               # <<lk.ent[n].repo, lk.ent[n].ref, lk.ent[n].source_path>>
       THEN "Reinstall"
     ELSE IF last.destBefore[lk.ent[n].local_path].kind = "absent"
       THEN "Reinstall"
     ELSE "Skip"

\* C28: install_all chooses each selected library's action by the first
\* matching rule (force, absent from the lockfile, repo/ref/source_path
\* changed, destination missing, check_remote and upstream moved, else
\* Skip), and mirror and extractor run for a library exactly when its action
\* is not Skip.
C28_PlanDecidesWhatRuns ==
  RanInstall =>
    \A n \in SeqToSet(last.todo) : (AttemptsOf(n) # {}) <=> (Plan(n) # "Skip")

\* the order of the steps of one library's install
StepOrder == <<"update_mirror", "extract_library", "LockEntry">>

\* the lock entry of n is what it was when the operation began
EntryUntouched(n) ==
  /\ n \in Locked(lock) <=> n \in Locked(last.lockBefore)
  /\ n \in Locked(lock) => lock.ent[n] = last.lockBefore.ent[n]

\* C29: within one library's install the steps are mirror update, then
\* extraction, then the lock entry: each starts only after the one before
\* has returned successfully, and a failed mirror update leaves the library
\* with no extraction attempt and no new lock entry.
C29_MirrorThenExtractThenEntry ==
  RanBatch =>
    \A i \in 1..Len(last.events) :
      LET e == last.events[i] IN
      (e.ev # "save" /\ e.did.steps # <<>>) =>
        LET s == e.did.steps
            p == PathOf(e.lib)
        IN /\ Len(s) <= Len(StepOrder)
           /\ \A j \in 1..Len(s) :
                s[j].step = StepOrder[j] /\ (j > 1 => s[j-1].ok)
           /\ (e.ev = "installed") <=> (Len(s) = Len(StepOrder))
           /\ ~s[1].ok => /\ e.did.extraction = <<>>
                          /\ dest[p] = last.destBefore[p]
                          /\ EntryUntouched(e.lib)

\* the mirror update of an installed library has failed, and its directory
\* and lock entry are still there
C29_Witness ==
  /\ RanBatch
  /\ \E i \in 1..Len(last.events) :
       LET e == last.events[i] IN
       /\ e.ev = "failed"
       /\ e.did.steps = <<Step("update_mirror", FALSE)>>
       /\ dest[PathOf(e.lib)].kind = "dir"
       /\ e.lib \in Locked(lock)

\* C30: in a successful extraction the checksum is computed only after
\* every write to the destination is finished (the copy, the provenance
\* file).
C30_ChecksumAfterAllWrites ==
  RanBatch =>
    \A i \in 1..Len(last.events) :
      LET e == last.events[i] IN
      e.ev = "installed" =>
        \A j, k \in 1..Len(e.did.extraction) :
          (e.did.extraction[j] = "checksum"
             /\ e.did.extraction[k] \in {"copy", "meta"}) => k < j

\* the refs a call of update_mirror is tried with
Refs == {Main, BadRef} \cup { Sha(c) : c \in 1..(MaxEnv + 1) }

\* a step of the update in place of mirror m fails: the sidecar cannot be
\* written, or ref resolves neither locally nor after a fetch that was
\* possible
UpdateInPlaceFails(m, up, ref, isDown, fault) ==
  \/ fault
  \/ /\ _check_commit_exists_locally(m, ref) = 0
     /\ \/ isDown
        \/ ~(ref.t = "branch" \/ (ref.t = "sha" /\ ref.c <= up))

C32_CorruptMirrorIsOnlyRecloned ==
  RanBatch =>
     \A n \in SeqToSet(last.todo) \cap SeqToSet(config.order) :
        \A i \in AttemptsOf(n) :
           (last.events[i].did.existed /\ ~last.events[i].did.hadMeta) =>
              last.events[i].did.cloneTried

\* C33: when create_mirror, called directly or as the fall-back of
\* update_mirror, fails at any step, no directory is left at the mirror's
\* path: neither mirror_exists nor list_mirrors sees a mirror of that URL.
\* This holds for every call that could be made in the current state, and
\* for every failed attempt of the last batch that tried the clone and was
\* the last of the batch to work on its repository.
C33_FailedCloneLeavesNoMirror ==
  /\ \A url \in Repos, ref \in Refs, isDown \in BOOLEAN, fault \in BOOLEAN :
        LET c == create_mirror(upstream[url], ref, isDown, now, fault)
            r == update_mirror(mirror[url], upstream[url], ref, isDown, now,
                               fault)
        IN /\ ~c.ok => /\ ~c.m.exists
                       /\ url \notin list_mirrors([mirror EXCEPT ![url] = c.m])
           /\ (~r.ok /\ r.cloneTried) =>
                       /\ ~r.m.exists
                       /\ url \notin list_mirrors([mirror EXCEPT ![url] = r.m])
  /\ RanBatch =>
        \A n \in SeqToSet(last.todo) \cap SeqToSet(config.order) :
           \A i \in AttemptsOf(n) :
              ( /\ last.events[i].ev = "failed"
                /\ last.events[i].did.cloneTried
                /\ last.events[i].did.steps = <<Step("update_mirror", FALSE)>>
                /\ \A j \in (i+1)..Len(last.events) :
                      last.events[j].lib \in SeqToSet(config.order) =>
                         config.spec[last.events[j].lib].repo
                           # config.spec[n].repo )
              => ~mirror[config.spec[n].repo].exists

C33_Witness ==
  /\ RanBatch
  /\ \E n \in SeqToSet(last.todo) \cap SeqToSet(config.order) :
        \E i \in AttemptsOf(n) :
           /\ last.events[i].ev = "failed"
           /\ last.events[i].did.cloneTried
           /\ last.events[i].did.cloned
           /\ last.events[i].why = "OSError"
           /\ last.events[i].did.steps = <<Step("update_mirror", FALSE)>>
           /\ ~mirror[config.spec[n].repo].exists

\* C34: when source_path does not exist in the mirror, the extraction
\* fails with the missing-source error (FileNotFoundError) before the
\* destination is touched: what was at the destination before the call is
\* still there, unchanged.
C34_MissingSourceLeavesDestination ==
  RanBatch =>
     \A n \in SeqToSet(last.todo) \cap SeqToSet(config.order) :
        \A i \in AttemptsOf(n) :
           ( /\ config.spec[n].source_path = "missing"
             /\ Len(last.events[i].did.steps) >= 2 )
           => /\ last.events[i].ev = "failed"
              /\ last.events[i].why = "FileNotFoundError"
              /\ last.events[i].did.steps
                   = <<Step("update_mirror", TRUE),
                       Step("extract_library", FALSE)>>
              /\ dest[PathOf(n)] = last.destBefore[PathOf(n)]

C34_Witness ==
  /\ RanBatch
  /\ \E n \in SeqToSet(last.todo) \cap SeqToSet(config.order) :
        \E i \in AttemptsOf(n) :
           /\ config.spec[n].source_path = "missing"
           /\ last.events[i].why = "FileNotFoundError"
           /\ n \in Locked(lock)
           /\ last.destBefore[PathOf(n)].kind = "dir"
           /\ dest[PathOf(n)] = last.destBefore[PathOf(n)]
           /\ validate_installation[n] = "valid"

BuiltinIgnored == {".git"}

\* C36: after any successful extraction the destination holds no file or
\* directory whose name is on the built-in ignore list (.git), also when
\* source_path is ".".
C36_IgnoredNamesAreNotExtracted ==
  RanBatch =>
     \A n \in Did("installed") :
        DOMAIN dest[PathOf(n)].files \cap BuiltinIgnored = {}

\* C37: two directories get the same checksum if and only if they hold,
\* the tool's metadata files left aside, the same relative file paths with
\* the same contents.
C37_ChecksumIffSameContent ==
  last.op = "checksum" =>
     ( (last.returned[1] = last.returned[2])
       <=> (Payload(dest["a"]).files = Payload(dest["b"]).files) )

\* C38: in a batch every library's extraction copies the working tree of
\* the mirror as checked out at that library's own resolved commit, also
\* when another library of the batch uses the same repository with
\* another ref: what is installed for a library is what its source_path
\* holds at the commit its lock entry records, and a library pinned to a
\* SHA gets that commit.
C38_EachLibraryReadsItsOwnCheckout ==
  RanBatch =>
     \A n \in Did("installed") :
        IsNew(lock, n) =>
           /\ Payload(dest[PathOf(n)])
                = UpstreamPayload(config.spec[n], lock.ent[n].commit)
           /\ config.spec[n].ref.t = "sha"
                => lock.ent[n].commit = config.spec[n].ref.c

C38_Witness ==
  /\ RanInstall /\ ~last.raised
  /\ {"a", "b"} \subseteq Did("installed")
  /\ config.spec["a"].repo = config.spec["b"].repo
  /\ config.spec["a"].ref # config.spec["b"].ref
  /\ lock.ent["a"].commit # lock.ent["b"].commit
  /\ Payload(dest["a"]) # Payload(dest["b"])

\* C39: as long as nobody edits installed files by hand, after any
\* sequence of install_all and clean calls (failed ones included) the
\* destination of every lock entry is absent or has the checksum the entry
\* records: the tool itself never makes a library modified.
C39_ToolNeverMakesModified ==
  \A n \in Locked(lock) :
     LET d == dest[lock.ent[n].local_path]
     IN d.kind = "absent" \/ ChecksumOf(d) = lock.ent[n].checksum

\* C40: install_all with a list of names leaves every library the list does
\* not name as it was (same lock entry, same destination), and a list with
\* a name the manifest lacks makes the call raise with the lockfile, the
\* destinations and the mirrors unchanged
C40_ListedInstallTouchesOnlyListed ==
  last.op = "install_all" =>
    /\ \A n \in last.unnamed :
         /\ (n \in Locked(lock)) = (n \in Locked(last.lockBefore))
         /\ n \in Locked(lock) =>
              /\ lock.ent[n] = last.lockBefore.ent[n]
              /\ dest[lock.ent[n].local_path] =
                   last.destBefore[lock.ent[n].local_path]
         /\ n \in SeqToSet(config.order) =>
              dest[PathOf(n)] = last.destBefore[PathOf(n)]
    /\ last.unknown # {} =>
         /\ last.raised
         /\ lock = last.lockBefore
         /\ dest = last.destBefore
         /\ mirror = last.mirrorBefore

\* library a alone was reinstalled from a newer commit while b, installed
\* and in the manifest, was left out of the list
C40_Witness ==
  /\ last.op = "install_all" /\ ~last.raised
  /\ last.todo = <<"a">>
  /\ last.unnamed = {"b"}
  /\ "b" \in Locked(lock) /\ "b" \in SeqToSet(config.order)
  /\ dest[PathOf("b")].kind # "absent"
  /\ "a" \in Locked(last.lockBefore)
  /\ lock.ent["a"] # last.lockBefore.ent["a"]
  /\ dest[PathOf("a")] # last.destBefore[PathOf("a")]

====
